---- MODULE Spec2Model ----
(***************************************************************************)
(* Model of validate_milestone1 (validate_milestone1_1765641590938.py):    *)
(* the Milestone 1 RDF validator.  A run parses one turtle file into a     *)
(* graph (a set of triples), executes four checks in sequence over it,     *)
(* prints a report and returns the verdict, which becomes the exit code.   *)
(***************************************************************************)
EXTENDS Integers, Sequences, FiniteSets, TLC

VARIABLES
    pending,            \* files still to be validated, one process run each (sys.argv[1])
    runs,               \* the finished runs, in order: [file, code] with the exit code
    ttl_file,           \* the file of the current run: [ok, triples]
    graph,              \* the rdflib Graph of the current run
    pc,                 \* position of the current run inside the script
    passed,             \* local `passed`
    location_errors,    \* local `location_errors`
    connection_found,   \* local `connection_found`
    quality_issues,     \* local `quality_issues`
    circular,           \* local `circular`
    out,                \* what the run has printed so far
    result              \* value returned by validate_milestone1

vars == <<pending, runs, ttl_file, graph, pc, passed, location_errors,
          connection_found, quality_issues, circular, out, result>>

(***************************************************************************)
(* Bounds of the model.                                                    *)
(***************************************************************************)
\* Largest number of non-type triples in an input graph.
MaxEdges == 3
\* Largest number of non-type triples in a graph of a pair of runs.
MaxPairEdges == 2

(***************************************************************************)
(* RDF terms.  A term is its class (URIRef, BNode, Literal) and its text.  *)
(***************************************************************************)
URIRef(text) == [kind |-> "URIRef", lex |-> text]
BNode(text) == [kind |-> "BNode", lex |-> text]
Literal(text) == [kind |-> "Literal", lex |-> text]

\* str(term): the text of the term, whatever its class.
str(term) == term.lex

\* isinstance(o, Literal)
IsLiteral(o) == o.kind = "Literal"

OMC(local) == URIRef("https://movielabs.com/omc/rdf/schema/v2.8#" \o local)
ME(local) == URIRef("https://me-nexus.com/id/" \o local)
RDF_type == URIRef("http://www.w3.org/1999/02/22-rdf-syntax-ns#type")
RDFS_label == URIRef("http://www.w3.org/2000/01/rdf-schema#label")

(***************************************************************************)
(* String functions used by the script.                                    *)
(***************************************************************************)
Min(a, b) == IF a < b THEN a ELSE b

CharAt(s, i) == SubSeq(s, i, i)

\* s[:n]
Prefix(s, n) == SubSeq(s, 1, Min(n, Len(s)))

\* s.split('/')[-1]
LastSegment(s) ==
    LET slashes == {i \in 1..Len(s) : CharAt(s, i) = "/"}
    IN  IF slashes = {} THEN s
        ELSE LET last == CHOOSE i \in slashes : \A j \in slashes : j <= i
             IN  SubSeq(s, last + 1, Len(s))

UpperCase == "ABCDEFGHIJKLMNOPQRSTUVWXYZ"
LowerCase == "abcdefghijklmnopqrstuvwxyz"

LowerChar(c) ==
    IF \E i \in 1..Len(UpperCase) : CharAt(UpperCase, i) = c
    THEN CharAt(LowerCase, CHOOSE i \in 1..Len(UpperCase) : CharAt(UpperCase, i) = c)
    ELSE c

\* s.lower()
RECURSIVE lower(_)
lower(s) == IF Len(s) = 0 THEN s ELSE LowerChar(CharAt(s, 1)) \o lower(SubSeq(s, 2, Len(s)))

\* sub in s
Contains(sub, s) ==
    \E i \in 1..(Len(s) - Len(sub) + 1) : SubSeq(s, i, i + Len(sub) - 1) = sub

(***************************************************************************)
(* Graph queries.                                                          *)
(***************************************************************************)
\* graph.triples((None, p, None))
triples(g, p) == {t \in g : t[2] = p}

\* graph.subjects(p, o): one item per matching triple
subjects(g, p, o) == {t \in g : t[2] = p /\ t[3] = o}

\* graph.objects(s, p)
objects(g, s, p) == {t[3] : t \in {u \in g : u[1] = s /\ u[2] = p}}

\* The orders in which a for loop may visit the elements of S.
Orderings(S) ==
    {f \in [1..Cardinality(S) -> S] : \A i, j \in 1..Cardinality(S) : f[i] = f[j] => i = j}

\* One printed line.
Line(sec, kind, text, n) == [sec |-> sec, kind |-> kind, text |-> text, n |-> n]

(***************************************************************************)
(* Vocabulary of the script.                                               *)
(***************************************************************************)
hasLocation == OMC("hasLocation")
hasParticipantStructuralCharacteristic == OMC("hasParticipantStructuralCharacteristic")
hasIdentifier == OMC("hasIdentifier")

\* The `requirements` dict, in its insertion order.
requirements ==
    << [name |-> "CreativeWork", entity_type |-> OMC("CreativeWork")],
       [name |-> "Participant",  entity_type |-> OMC("Participant")],
       [name |-> "Person",       entity_type |-> OMC("Person")],
       [name |-> "Location",     entity_type |-> OMC("Location")],
       [name |-> "Asset",        entity_type |-> OMC("Asset")] >>

(***************************************************************************)
(* Input files.  A file either fails to parse or holds a graph made of     *)
(* type triples of the five entities and at most MaxEdges other triples,   *)
(* drawn from the candidates below.                                        *)
(***************************************************************************)
cw == ME("cw-1")
p1 == ME("participant-0001-abcdefgh")
p2 == BNode("b0")
h1 == ME("person-structural-characteristic-01")
u1 == ME("node-x")
l1 == ME("loc-1")
w1 == ME("place-y")
a1 == ME("asset-1")

TypeTriples ==
    { <<cw, RDF_type, OMC("CreativeWork")>>,
      <<p1, RDF_type, OMC("Participant")>>,
      <<h1, RDF_type, OMC("Person")>>,
      <<l1, RDF_type, OMC("Location")>>,
      <<a1, RDF_type, OMC("Asset")>> }

StructureTriples ==
    { <<p2, RDF_type, OMC("Participant")>>,
      <<p1, hasParticipantStructuralCharacteristic, h1>>,
      <<p2, hasParticipantStructuralCharacteristic, h1>>,
      <<p1, hasParticipantStructuralCharacteristic, u1>>,
      <<h1, hasLocation, l1>>,
      <<h1, hasLocation, Literal("loc-1")>>,
      <<u1, hasLocation, w1>>,
      <<a1, hasLocation, Literal("Stage 4")>> }

QualityTriples ==
    { <<l1, RDFS_label, Literal("MINESSOTTA Office")>>,
      <<l1, RDFS_label, Literal("Minnesota")>>,
      <<p1, hasIdentifier, p1>>,
      <<h1, hasIdentifier, h1>>,
      <<p1, hasIdentifier, Literal(str(p1))>>,
      <<p1, hasIdentifier, Literal("id-1")>> }

BoundedSubsets(S, n) == {x \in SUBSET S : Cardinality(x) <= n}

Graphs ==
    {ty \cup ed : ty \in SUBSET TypeTriples,
                  ed \in BoundedSubsets(StructureTriples \cup QualityTriples, MaxEdges)}

File(ok, g) == [ok |-> ok, triples |-> g]

Files == {File(FALSE, {})} \cup {File(TRUE, g) : g \in Graphs}

\* Pairs of files that parse and whose graphs differ only in their label
\* and hasIdentifier triples.
Core(g) == {t \in g : t[2] \notin {RDFS_label, hasIdentifier}}

PairGraphs ==
    {ty \cup ed : ty \in {TypeTriples, TypeTriples \ {<<a1, RDF_type, OMC("Asset")>>}},
                  ed \in BoundedSubsets(StructureTriples \cup QualityTriples, MaxPairEdges)}

FilePairs ==
    {<<File(TRUE, pair[1]), File(TRUE, pair[2])>> :
        pair \in {x \in PairGraphs \X PairGraphs : Core(x[1]) = Core(x[2])}}

(***************************************************************************)
(* Check 1: required entity types.                                         *)
(***************************************************************************)
\* Variant: a type counts as present only from two instances on.
SatisfiedAtLeastTwo(count) == count > 1

\* if count > 0
Satisfied(count) == count > 0

\* len(list(graph.subjects(RDF.type, entity_type)))
TypeCount(g, entity_type) == Cardinality(subjects(g, RDF_type, entity_type))

\* Variant: a loop that stops at the first missing type.
RECURSIVE Check1LoopFirstError(_, _, _, _)
Check1LoopFirstError(g, i, pass, printed) ==
    IF i > Len(requirements) THEN [passed |-> pass, out |-> printed]
    ELSE LET name == requirements[i].name
             count == TypeCount(g, requirements[i].entity_type)
         IN  IF Satisfied(count)
             THEN Check1LoopFirstError(g, i + 1, pass,
                                       Append(printed, Line(1, "found", name, count)))
             ELSE [passed |-> FALSE, out |-> Append(printed, Line(1, "MISSING", name, 0))]

\* The for loop over requirements.items(), from item i on.
RECURSIVE Check1Loop(_, _, _, _)
Check1Loop(g, i, pass, printed) ==
    IF i > Len(requirements) THEN [passed |-> pass, out |-> printed]
    ELSE LET name == requirements[i].name
             count == TypeCount(g, requirements[i].entity_type)
         IN  IF Satisfied(count)
             THEN Check1Loop(g, i + 1, pass, Append(printed, Line(1, "found", name, count)))
             ELSE Check1Loop(g, i + 1, FALSE, Append(printed, Line(1, "MISSING", name, 0)))

(***************************************************************************)
(* Check 2: location references.                                           *)
(***************************************************************************)
\* Variant: every hasLocation triple is reported, whatever its object.
IsLocationErrorAny(o) == TRUE

\* if isinstance(o, Literal)
IsLocationError(o) == IsLiteral(o)

\* f"    x {s.split('/')[-1][:20]}... -> '{o}' (STRING LITERAL)", the cross
\* mark and the arrow of the source written in ASCII.
LocationError(s, o) ==
    "    x " \o Prefix(LastSegment(str(s)), 20) \o "... -> '" \o str(o) \o "' (STRING LITERAL)"

\* The for loop over graph.triples((None, OMC.hasLocation, None)), visiting in `order`.
RECURSIVE Check2Loop(_, _, _)
Check2Loop(order, i, errors) ==
    IF i > Len(order) THEN errors
    ELSE IF IsLocationError(order[i][3])
         THEN Check2Loop(order, i + 1, Append(errors, LocationError(order[i][1], order[i][3])))
         ELSE Check2Loop(order, i + 1, errors)

\* The lines printed for the errors.
RECURSIVE PrintErrors(_, _, _)
PrintErrors(errors, i, printed) ==
    IF i > Len(errors) THEN printed
    ELSE PrintErrors(errors, i + 1,
                     Append(printed, Line(2, "error", errors[i], 0)))

(***************************************************************************)
(* Check 3: Participant -> Person -> Location connection.                  *)
(***************************************************************************)
\* Variant: a Literal location is taken for a connection.
IsMalformedNever(location) == FALSE

\* Variant: the test is inverted.
IsMalformedResource(location) == ~IsLiteral(location)

\* if isinstance(location, Literal)
IsMalformed(location) == IsLiteral(location)

\* The (participant, person, location) combinations the three nested for
\* loops reach.
Paths(g) ==
    UNION { UNION { {<<t[1], person, location>> : location \in objects(g, person, hasLocation)} :
                    person \in objects(g, t[1], hasParticipantStructuralCharacteristic) } :
            t \in subjects(g, RDF_type, OMC("Participant")) }

\* The orders in which three nested for loops may visit the paths: the
\* paths of one participant together, and among them those of one person.
NestedOrderings(S) ==
    {f \in Orderings(S) :
        \A i, j, k \in 1..Cardinality(S) :
            (i < j /\ j < k) =>
                /\ (f[i][1] = f[k][1] => f[j][1] = f[i][1])
                /\ (f[i][1] = f[k][1] /\ f[i][2] = f[k][2] => f[j][2] = f[i][2])}

\* The body of the innermost loop, over the paths in `order`, from path i on.
RECURSIVE Check3Loop(_, _, _, _, _)
Check3Loop(order, i, pass, found, printed) ==
    IF i > Len(order) THEN [passed |-> pass, connection_found |-> found, out |-> printed]
    ELSE IF IsMalformed(order[i][3])
         THEN Check3Loop(order, i + 1, FALSE, found,
                         Append(printed, Line(3, "malformed", "", 0)))
         ELSE Check3Loop(order, i + 1, pass, TRUE,
                         Append(printed, Line(3, "connection",
                                              Prefix(LastSegment(str(order[i][1])), 15), 0)))

\* Variant: the warning is printed whatever was found.
NoConnectionAlways(found) == TRUE

\* if not connection_found
NoConnection(found) == ~found

(***************************************************************************)
(* Check 4: data quality.                                                  *)
(***************************************************************************)
\* isinstance(o, Literal) and 'minessotta' in str(o).lower()
IsMisspelled(o) == IsLiteral(o) /\ Contains("minessotta", lower(str(o)))

\* The for loop over graph.triples((None, RDFS.label, None)), visiting in `order`.
RECURSIVE SpellingLoop(_, _, _)
SpellingLoop(order, i, issues) ==
    IF i > Len(order) THEN issues
    ELSE IF IsMisspelled(order[i][3])
         THEN SpellingLoop(order, i + 1,
                           Append(issues, Line(4, "spelling", str(order[i][3]), 0)))
         ELSE SpellingLoop(order, i + 1, issues)

\* if str(s) == str(o)
IsCircular(s, o) == str(s) = str(o)

\* The for loop over graph.triples((None, OMC.hasIdentifier, None)), visiting in `order`.
RECURSIVE CircularLoop(_, _, _)
CircularLoop(order, i, count) ==
    IF i > Len(order) THEN count
    ELSE IF IsCircular(order[i][1], order[i][3])
         THEN CircularLoop(order, i + 1, count + 1)
         ELSE CircularLoop(order, i + 1, count)

\* if circular > 0: the two lines appended to quality_issues
CircularIssues(issues, count) ==
    IF count > 0
    THEN issues \o << Line(4, "circular", "", count), Line(4, "recommend", "", 0) >>
    ELSE issues

(***************************************************************************)
(* Summary.                                                                *)
(***************************************************************************)
\* if passed: ... else: ...
SummaryLines(pass, issues) ==
    IF pass
    THEN << Line(5, "PASSED", "", 0) >>
         \o (IF Len(issues) > 0 THEN << Line(5, "note", "", Len(issues)) >> ELSE << >>)
    ELSE << Line(5, "FAILED", "", 0) >>

\* Variant: quality issues fail the run.
ReturnValueStrict(pass, issues) == pass /\ Len(issues) = 0

\* return passed
ReturnValue(pass, issues) == pass

\* sys.exit(0 if result else 1)
ExitCode(res) == IF res THEN 0 ELSE 1

\* Variant: the parse error is swallowed and the checks run on the empty graph.
ParseNeverFails(file) == FALSE

\* try: graph.parse(...) except: return False
ParseFails(file) == ~file.ok

(***************************************************************************)
(* The run, step by step.                                                  *)
(***************************************************************************)
Locals0 ==
    /\ graph = {}
    /\ passed = TRUE
    /\ location_errors = << >>
    /\ connection_found = FALSE
    /\ quality_issues = << >>
    /\ circular = 0
    /\ out = << >>
    /\ result = FALSE

Init ==
    /\ pending \in {<<f>> : f \in Files}
    /\ runs = << >>
    /\ ttl_file = File(FALSE, {})
    /\ pc = "idle"
    /\ Locals0

\* python validate_milestone1.py <file.ttl>: banner, graph = Graph()
Start ==
    /\ pc = "idle"
    /\ pending # << >>
    /\ ttl_file' = Head(pending)
    /\ pending' = Tail(pending)
    /\ graph' = {}
    /\ passed' = TRUE
    /\ location_errors' = << >>
    /\ connection_found' = FALSE
    /\ quality_issues' = << >>
    /\ circular' = 0
    /\ out' = << Line(0, "banner", "", 0) >>
    /\ result' = FALSE
    /\ pc' = "parse"
    /\ UNCHANGED runs

\* graph.parse(ttl_file, format='turtle'); on an exception: return False
Parse ==
    /\ pc = "parse"
    /\ IF ParseFails(ttl_file)
       THEN /\ out' = Append(out, Line(0, "parse failed", "", 0))
            /\ result' = FALSE
            /\ pc' = "returned"
            /\ UNCHANGED <<graph, passed>>
       ELSE /\ graph' = ttl_file.triples
            /\ out' = Append(out, Line(0, "loaded", "", Cardinality(ttl_file.triples)))
            /\ passed' = TRUE
            /\ pc' = "check1"
            /\ UNCHANGED result
    /\ UNCHANGED <<pending, runs, ttl_file, location_errors, connection_found,
                   quality_issues, circular>>

Check1 ==
    /\ pc = "check1"
    /\ LET r == Check1Loop(graph, 1, passed, Append(out, Line(1, "header", "", 0)))
       IN  /\ passed' = r.passed
           /\ out' = r.out
    /\ pc' = "check2"
    /\ UNCHANGED <<pending, runs, ttl_file, graph, location_errors, connection_found,
                   quality_issues, circular, result>>

Check2 ==
    /\ pc = "check2"
    /\ \E order \in Orderings(triples(graph, hasLocation)) :
          LET errors == Check2Loop(order, 1, << >>)
              header == Append(out, Line(2, "header", "", 0))
          IN  /\ location_errors' = errors
              /\ IF Len(errors) > 0
                 THEN /\ out' = Append(PrintErrors(errors, 1,
                                           Append(header, Line(2, "CRITICAL ERRORS FOUND", "", 0))),
                                       Line(2, "FIX", "", 0))
                      /\ passed' = FALSE
                 ELSE /\ out' = Append(header, Line(2, "ok", "", 0))
                      /\ passed' = passed
    /\ pc' = "check3"
    /\ UNCHANGED <<pending, runs, ttl_file, graph, connection_found, quality_issues,
                   circular, result>>

Check3 ==
    /\ pc = "check3"
    /\ \E order \in NestedOrderings(Paths(graph)) :
          LET r == Check3Loop(order, 1, passed, FALSE, Append(out, Line(3, "header", "", 0)))
          IN  /\ passed' = r.passed
              /\ connection_found' = r.connection_found
              /\ out' = IF NoConnection(r.connection_found)
                        THEN Append(r.out, Line(3, "warning", "", 0))
                        ELSE r.out
    /\ pc' = "check4"
    /\ UNCHANGED <<pending, runs, ttl_file, graph, location_errors, quality_issues,
                   circular, result>>

Check4 ==
    /\ pc = "check4"
    /\ \E labels \in Orderings(triples(graph, RDFS_label)),
          identifiers \in Orderings(triples(graph, hasIdentifier)) :
          LET count == CircularLoop(identifiers, 1, 0)
              issues == CircularIssues(SpellingLoop(labels, 1, << >>), count)
              header == Append(out, Line(4, "header", "", 0))
          IN  /\ circular' = count
              /\ quality_issues' = issues
              /\ out' = IF Len(issues) > 0
                        THEN Append(header, Line(4, "Quality Issues Found", "", 0)) \o issues
                        ELSE Append(header, Line(4, "ok", "", 0))
    /\ pc' = "summary"
    /\ UNCHANGED <<pending, runs, ttl_file, graph, passed, location_errors,
                   connection_found, result>>

\* The summary and `return passed`
Summary ==
    /\ pc = "summary"
    /\ out' = out \o SummaryLines(passed, quality_issues)
    /\ result' = ReturnValue(passed, quality_issues)
    /\ pc' = "returned"
    /\ UNCHANGED <<pending, runs, ttl_file, graph, passed, location_errors,
                   connection_found, quality_issues, circular>>

\* sys.exit(0 if result else 1): the process ends and its state is gone
Exit ==
    /\ pc = "returned"
    /\ runs' = Append(runs, [file |-> ttl_file, code |-> ExitCode(result)])
    /\ pc' = "idle"
    /\ graph' = {}
    /\ passed' = TRUE
    /\ location_errors' = << >>
    /\ connection_found' = FALSE
    /\ quality_issues' = << >>
    /\ circular' = 0
    /\ out' = << >>
    /\ result' = FALSE
    /\ UNCHANGED <<pending, ttl_file>>

Next ==
    \/ Start
    \/ Parse
    \/ Check1
    \/ Check2
    \/ Check3
    \/ Check4
    \/ Summary
    \/ Exit

Spec == Init /\ [][Next]_vars

\* Two runs, on the two files of a pair.
InitPair ==
    /\ pending \in FilePairs
    /\ runs = << >>
    /\ ttl_file = File(FALSE, {})
    /\ pc = "idle"
    /\ Locals0

SpecPair == InitPair /\ [][Next]_vars

(***************************************************************************)
(* Properties.  They are stated over the input graph of the run, G, with   *)
(* set comprehensions, and compared with what the run computed.            *)
(***************************************************************************)
G == ttl_file.triples

RequiredNames == {"CreativeWork", "Participant", "Person", "Location", "Asset"}

\* The distinct subjects s with (s, type, OMC.T) in G.
Typed(T) == {t[1] : t \in {u \in G : u[2] = RDF_type /\ u[3] = OMC(T)}}

AllTypesPresent == \A T \in RequiredNames : Typed(T) # {}

\* The (s, hasLocation, o) triples of G whose object is a Literal.
LiteralLocations == {t \in G : t[2] = hasLocation /\ t[3].kind = "Literal"}

\* The two-hop paths (P, H, v) of G that start at a Participant.
TwoHopPaths ==
    LET participants == Typed("Participant")
        first == {t \in G : t[2] = hasParticipantStructuralCharacteristic /\ t[1] \in participants}
        second == {t \in G : t[2] = hasLocation}
    IN  {<<x[1][1], x[2][1], x[2][3]>> : x \in {y \in first \X second : y[1][3] = y[2][1]}}

LiteralPaths == {path \in TwoHopPaths : path[3].kind = "Literal"}
ResourcePaths == {path \in TwoHopPaths : path[3].kind # "Literal"}

\* How many lines of `printed` satisfy the test.
Indices(seq) == 1..Len(seq)
CountKind(printed, kind) == Cardinality({i \in Indices(printed) : printed[i].kind = kind})
Has(printed, kind) == \E i \in Indices(printed) : printed[i].kind = kind

\* The run has parsed its file and returned.
Returned == pc = "returned" /\ ttl_file.ok
\* The run has parsed its file and is past check 2, check 3, check 4.
Past2 == ttl_file.ok /\ pc \in {"check3", "check4", "summary", "returned"}
Past3 == ttl_file.ok /\ pc \in {"check4", "summary", "returned"}
Past4 == ttl_file.ok /\ pc \in {"summary", "returned"}

\* C1: for a graph that loads, the verdict is true iff the five required
\* types each have an instance, no hasLocation triple has a Literal object and
\* no two-hop path from a Participant ends in a Literal.
C1_VerdictIffThreeConditions ==
    Returned => (result = (AllTypesPresent /\ LiteralLocations = {} /\ LiteralPaths = {}))

C1_Witness ==
    Returned /\ result /\ ResourcePaths # {} /\ quality_issues # << >>

\* C2: when a required type has no instance the verdict is false, every
\* missing type is reported MISSING by name, every present type is reported
\* with its number of distinct typed subjects, and all five names are reported.
C2_PresenceReportExhaustive ==
    Returned =>
        /\ (~AllTypesPresent => ~result)
        /\ \A T \in RequiredNames :
              /\ (Typed(T) = {} <=> \E i \in Indices(out) : out[i] = Line(1, "MISSING", T, 0))
              /\ (Typed(T) # {} <=>
                    \E i \in Indices(out) : out[i] = Line(1, "found", T, Cardinality(Typed(T))))
        /\ CountKind(out, "MISSING") + CountKind(out, "found") = Cardinality(RequiredNames)

C2_Witness ==
    Returned /\ Typed("CreativeWork") = {} /\ Typed("Location") = {}
             /\ Cardinality(Typed("Participant")) = 2

\* C3: the defect list of check 2 holds one record per (s, hasLocation, o)
\* triple whose object is a Literal and nothing else, and when it is not empty
\* the verdict is false.
C3_DefectsAreLiteralLocations ==
    Past2 =>
        /\ Len(location_errors) = Cardinality(LiteralLocations)
        /\ \A t \in LiteralLocations :
              \E i \in Indices(location_errors) : location_errors[i] = LocationError(t[1], t[3])
        /\ \A i \in Indices(location_errors) :
              \E t \in LiteralLocations : location_errors[i] = LocationError(t[1], t[3])
        /\ (location_errors # << >> => ~passed)
        /\ (pc = "returned" /\ location_errors # << >> => ~result)

C3_Witness ==
    Returned /\ Cardinality(LiteralLocations) = 2
             /\ \E t \in G : t[2] = hasLocation /\ t[3].kind # "Literal"

\* C4: check 3 records one successful connection for each two-hop path that
\* ends in a Resource and no error for it; for each path that ends in a
\* Literal it records an error and no connection, and the verdict is false.
C4_PathsClassified ==
    Past3 =>
        LET good == ResourcePaths
            bad == LiteralPaths
            tag == [P \in {path[1] : path \in good} |-> Prefix(LastSegment(P.lex), 15)]
        IN  /\ CountKind(out, "connection") = Cardinality(good)
            /\ CountKind(out, "malformed") = Cardinality(bad)
            /\ \A P \in DOMAIN tag :
                  Cardinality({i \in Indices(out) : out[i] = Line(3, "connection", tag[P], 0)})
                  = Cardinality({path \in good : tag[path[1]] = tag[P]})
            /\ (bad # {} => ~passed)
            /\ (pc = "returned" /\ bad # {} => ~result)

C4_Witness ==
    Returned /\ LiteralPaths # {} /\ ResourcePaths # {}

\* C5: the "no connection found" warning is printed iff no successful
\* connection was recorded; a graph with no two-hop path gets the warning
\* and no malformed-connection error; the warning alone does not fail the run.
C5_WarningAdvisory ==
    Past3 =>
        /\ (Has(out, "warning") <=> CountKind(out, "connection") = 0)
        /\ (Has(out, "warning") <=> ResourcePaths = {})
        /\ CountKind(out, "warning") <= 1
        /\ (TwoHopPaths = {} => Has(out, "warning") /\ ~Has(out, "malformed"))
        /\ (pc = "returned" /\ Has(out, "warning") /\ AllTypesPresent /\ LiteralLocations = {}
                => result)

C5_Witness ==
    Returned /\ Has(out, "warning") /\ TwoHopPaths = {} /\ result

\* C6: two graphs that differ only in their label and hasIdentifier triples
\* get the same verdict.
C6_QualityNeverChangesVerdict ==
    (pc = "returned" /\ Len(runs) = 1) => (ExitCode(result) = runs[1].code)

C6_Witness ==
    /\ pc = "returned" /\ Len(runs) = 1
    /\ result
    /\ Has(out, "spelling") /\ Has(out, "circular")
    /\ Core(runs[1].file.triples) = runs[1].file.triples

\* The (s, hasIdentifier, o) triples of G whose object is their subject.
SelfLoops == {t \in G : t[2] = hasIdentifier /\ t[1] = t[3]}

\* C7: the circularity count is the number of (s, hasIdentifier, o) triples
\* whose subject and object are the same term (a Literal that spells the
\* IRI of the subject is another term), and one aggregate issue with that
\* count is emitted iff the count is positive.

C7_CircularCountsSelfLoops ==
    Past4 =>
        /\ circular = Cardinality(SelfLoops)
        /\ CountKind(quality_issues, "circular") = (IF SelfLoops # {} THEN 1 ELSE 0)
        /\ \A i \in Indices(quality_issues) :
              quality_issues[i].kind = "circular" => quality_issues[i].n = Cardinality(SelfLoops)

\* C8: a run whose file parses prints the four checks in order and then one
\* summary, PASSED exactly when it returns true; a run whose file does not
\* parse prints no check and returns false.
C8_FixedOrderNoShortCircuit ==
    pc = "returned" =>
        IF ttl_file.ok
        THEN /\ \A i, j \in Indices(out) : i < j => out[i].sec <= out[j].sec
             /\ \A k \in 1..4 :
                   Cardinality({i \in Indices(out) : out[i] = Line(k, "header", "", 0)}) = 1
             /\ CountKind(out, "PASSED") + CountKind(out, "FAILED") = 1
             /\ (Has(out, "PASSED") <=> result)
             /\ \A i \in Indices(out) : out[i].kind \in {"PASSED", "FAILED"} => out[i].sec = 5
             /\ ~Has(out, "parse failed")
        ELSE /\ \A i \in Indices(out) : out[i].sec = 0
             /\ ~result

C8_Witness ==
    Returned /\ Has(out, "MISSING") /\ Has(out, "error") /\ Has(out, "malformed")
             /\ Has(out, "circular") /\ Has(out, "FAILED")

C8_WitnessParseFailure ==
    pc = "returned" /\ ~ttl_file.ok

\* The two-hop paths through a node typed Person to a node typed Location.
TypedPaths ==
    {path \in ResourcePaths : path[2] \in Typed("Person") /\ path[3] \in Typed("Location")}

\* C9: a successful connection is recorded only for a path whose start is
\* typed Participant, whose intermediate node is typed Person and whose
\* target is typed Location.

C9_ConnectionsAreTyped ==
    Past3 =>
        /\ CountKind(out, "connection") = Cardinality(TypedPaths)
        /\ (connection_found => TypedPaths # {})

\* C10: every malformed connection is also a reference-kind defect, so the
\* verdict is (all five types present) and (no hasLocation triple with a
\* Literal object).
C10_MalformedImpliesDefect ==
    Past3 =>
        /\ (Has(out, "malformed") => location_errors # << >>)
        /\ \A path \in LiteralPaths :
              \E i \in Indices(location_errors) :
                  location_errors[i] = LocationError(path[2], path[3])
        /\ (pc = "returned" => (result = (AllTypesPresent /\ LiteralLocations = {})))

\* The converse fails: a run that fails on a Literal location alone, with no
\* malformed connection recorded.
C10_Witness ==
    Returned /\ AllTypesPresent /\ ~result /\ location_errors # << >>
             /\ ~Has(out, "malformed") /\ Typed("Participant") # {}
====
